---------------------------- MODULE Spec2Model ----------------------------
(***************************************************************************)
(* Feature extraction from persistence diagrams                            *)
(* (src/gtda/diagrams/features.py): PersistenceEntropy, Amplitude, ATOL.   *)
(*                                                                         *)
(* One estimator instance is followed from its construction: `cls` is its  *)
(* class, `params` the hyperparameters __init__ stores, `attrs` the        *)
(* attributes fit assigns (an attribute is present iff its name is in      *)
(* DOMAIN attrs).  `batch` is the collection of diagrams the caller passes *)
(* to fit and transform; op/ret/err describe the last call.  pc, tasks and *)
(* results are the joblib fan-out of PersistenceEntropy.transform.         *)
(* unitsRun counts the work units the last call ran, everFitted records    *)
(* that a fit call has returned self, prevRet is what the call before the  *)
(* last one returned when both are transform calls.                        *)
(* class_hyperparameters holds the nested dicts of the class attribute     *)
(* ATOL._hyperparameters, which every ATOL instance shares; fitpc and      *)
(* locals are the position and the local variables of a running ATOL.fit.  *)
(***************************************************************************)
EXTENDS Integers, Sequences, FiniteSets, TLC

VARIABLES cls, params, attrs, batch, op, ret, err, pc, tasks, results,
          unitsRun, everFitted, prevRet, class_hyperparameters, fitpc, locals

vars == <<cls, params, attrs, batch, op, ret, err, pc, tasks, results,
          unitsRun, everFitted, prevRet, class_hyperparameters, fitpc, locals>>

fitVars == <<class_hyperparameters, fitpc, locals>>

(***************************************************************************)
(* Bounds of the model.                                                    *)
(***************************************************************************)
\* largest number of diagrams in a batch
MaxN == 2
\* largest n_jobs (number of effective workers)
MaxJobs == 2
\* largest number of cluster centers per homology dimension
MaxK == 3

(***************************************************************************)
(* Numeric values.  Floats are kept exact and symbolic: an integer, NaN,   *)
(* +inf, the base-2 entropy of a lifetime distribution, that entropy       *)
(* divided by log2 of the lifetime sum, or a p-th root.                    *)
(***************************************************************************)
Num(k) == [kind |-> "num", n |-> k, ls |-> <<>>]
NaN == [kind |-> "nan", n |-> 0, ls |-> <<>>]
PosInf == [kind |-> "inf", n |-> 0, ls |-> <<>>]
MaxFloat == [kind |-> "maxfloat", n |-> 0, ls |-> <<>>]
NoneV == [kind |-> "None", n |-> 0, ls |-> <<>>]
\* entropy (in bits) of the distribution ls / sum(ls), at least two outcomes
H(l) == [kind |-> "H", n |-> 0, ls |-> l]
\* H(l) / log2(s), s > 1
HOverLog2(l, s) == [kind |-> "H/log2", n |-> s, ls |-> l]

RECURSIVE SumSeq(_)
SumSeq(s) == IF s = <<>> THEN 0 ELSE Head(s) + SumSeq(Tail(s))

RECURSIVE Gcd(_, _)
Gcd(a, b) == IF b = 0 THEN a ELSE Gcd(b, a % b)

RECURSIVE GcdSeq(_)
GcdSeq(s) == IF s = <<>> THEN 0 ELSE Gcd(Head(s), GcdSeq(Tail(s)))

RECURSIVE Flatten(_)
Flatten(blocks) ==
    IF blocks = <<>> THEN <<>> ELSE Head(blocks) \o Flatten(Tail(blocks))

RECURSIVE SetToSortedSeq(_)
SetToSortedSeq(S) ==
    IF S = {} THEN <<>>
    ELSE LET m == CHOOSE x \in S : \A y \in S : x <= y
         IN <<m>> \o SetToSortedSeq(S \ {m})

Min(a, b) == IF a <= b THEN a ELSE b
Range(s) == {s[i] : i \in DOMAIN s}

\* numpy reshape of a flat sequence to (rows, cols), row-major
Reshape(flat, rows, cols) ==
    [r \in 1..rows |-> [c \in 1..cols |-> flat[(r - 1) * cols + c]]]

\* numpy .T of a (rows, cols) array
Transpose(M, rows, cols) ==
    [c \in 1..cols |-> [r \in 1..rows |-> M[r][c]]]

(***************************************************************************)
(* Inputs: diagrams are sequences of triples <<birth, death, dimension>>   *)
(* with death >= birth; every diagram of a batch holds the same number of  *)
(* triples per homology dimension (docstrings of fit and transform).       *)
(***************************************************************************)
\* the dimension tag of each triple of a diagram, in storage order
DimPattern == <<1, 0, 0>>
\* the <<birth, death>> pairs each triple ranges over: <<1, 1>> is a
\* diagonal point, <<0, 1>> has lifetime 1, <<0, 2>> has lifetime 2
PlanePoints ==
    <<{<<1, 1>>, <<0, 1>>, <<0, 2>>}, {<<1, 1>>, <<0, 1>>}, {<<1, 1>>, <<0, 2>>}>>

Diagrams ==
    {[p \in DOMAIN DimPattern |-> <<bd[p][1], bd[p][2], DimPattern[p]>>] :
        bd \in {f \in [DOMAIN DimPattern -> UNION Range(PlanePoints)] :
                    \A p \in DOMAIN DimPattern : f[p] \in PlanePoints[p]}}

Batches == UNION {[1..n -> Diagrams] : n \in 1..MaxN}

(***************************************************************************)
(* Attributes and call records.                                            *)
(***************************************************************************)
NoAttrs == [a \in {} |-> 0]
SetAttr(a, name, v) == (name :> v) @@ a

NoValue == [kind |-> "none", data |-> <<>>]
Self == [kind |-> "self", data |-> <<>>]
Array(rows) == [kind |-> "array", data |-> rows]

\* sklearn check_is_fitted(self): some instance attribute ends with "_"
FitAttrNames == {"homology_dimensions_", "effective_metric_params_", "centers_"}
check_is_fitted(a) == (DOMAIN a) \cap FitAttrNames # {}

\* np.unique(X[0, :, 2]) then _homology_dimensions_to_sorted_ints
homology_dimensions_fit(X) == SetToSortedSeq({X[1][p][3] : p \in DOMAIN X[1]})

\* _subdiagrams(X, [dim]) on one diagram: the triples tagged dim, in order
subdiagram(x, dim) == SelectSeq(x, LAMBDA t : t[3] = dim)

\* sklearn gen_even_slices(n, n_packs): contiguous slices [lo, hi), 0-based
SliceStart(n, n_packs, p) == p * (n \div n_packs) + Min(p, n % n_packs)
gen_even_slices(n, n_packs) ==
    [p \in 1..Min(n, n_packs) |->
        [lo |-> SliceStart(n, n_packs, p - 1), hi |-> SliceStart(n, n_packs, p)]]

\* joblib effective_n_jobs for a positive n_jobs
effective_n_jobs(n_jobs) == n_jobs


(***************************************************************************)
(* PersistenceEntropy                                                      *)
(***************************************************************************)
PEConfigs ==
    {[normalize |-> nz, nan_fill_value |-> f, n_jobs |-> j] :
        nz \in {"True", "False"}, f \in {NoneV, Num(-1), Num(0)},
        j \in 1..MaxJobs}
    \cup {[normalize |-> "yes", nan_fill_value |-> Num(-1), n_jobs |-> 1]}

\* validate_params against _hyperparameters: normalize is a bool and
\* nan_fill_value a Real or None
PEParamsValid(p) ==
    /\ p.normalize \in {"True", "False"}
    /\ p.nan_fill_value.kind \in {"num", "None"}

\* X[:, :, 1] - X[:, :, 0] on one subdiagram
Lifespan(sub) == [p \in DOMAIN sub |-> sub[p][2] - sub[p][1]]

\* the nonzero lifetimes as a distribution in lowest terms, sorted
Distribution(l) ==
    LET nz == SelectSeq(l, LAMBDA x : x # 0)
        g == GcdSeq(nz)
    IN SortSeq([i \in DOMAIN nz |-> nz[i] \div g], LAMBDA a, b : a < b)

\* scipy.stats.entropy(pk, base=2): pk / sum(pk), then the sum of -p log2 p
entropy(l) ==
    IF Len(l) = 0 THEN Num(0)
    ELSE IF SumSeq(l) = 0 THEN NaN
    ELSE IF Len(SelectSeq(l, LAMBDA x : x # 0)) = 1 THEN Num(0)
    ELSE H(Distribution(l))

\* e / np.log2(s) in IEEE arithmetic, s a lifetime sum (an integer >= 0)
DivideByLog2(e, s) ==
    CASE e.kind = "nan" -> NaN
      [] e.kind # "nan" /\ s = 0 -> Num(0)
      [] e.kind # "nan" /\ s = 1 -> IF e = Num(0) THEN NaN ELSE PosInf
      [] OTHER -> IF e = Num(0) THEN Num(0) ELSE HOverLog2(e.ls, s)

\* np.nan_to_num(x, nan=fill)
nan_to_num(e, fill) ==
    CASE e.kind = "nan" -> fill
      [] e.kind = "inf" -> MaxFloat
      [] OTHER -> e

\* _persistence_entropy with the fill guarded by "if nan_fill_value:", which
\* skips a fill value of 0
persistence_entropy_truthy_fill(Xs, normalize, nan_fill_value) ==
    [i \in DOMAIN Xs |->
        LET X_lifespan == Lifespan(Xs[i])
            X_entropy == entropy(X_lifespan)
            normalized == IF normalize = "True"
                          THEN DivideByLog2(X_entropy, SumSeq(X_lifespan))
                          ELSE X_entropy
        IN IF nan_fill_value # NoneV /\ nan_fill_value # Num(0)
           THEN nan_to_num(normalized, nan_fill_value)
           ELSE normalized]

\* _persistence_entropy on a slice of subdiagrams: one entropy per sample
_persistence_entropy(Xs, normalize, nan_fill_value) ==
    [i \in DOMAIN Xs |->
        LET X_lifespan == Lifespan(Xs[i])
            X_entropy == entropy(X_lifespan)
            normalized == IF normalize = "True"
                          THEN DivideByLog2(X_entropy, SumSeq(X_lifespan))
                          ELSE X_entropy
        IN IF nan_fill_value # NoneV
           THEN nan_to_num(normalized, nan_fill_value)
           ELSE normalized]

\* attributes assigned by PersistenceEntropy.fit
PEFitAttrs(a, X) ==
    LET dims == homology_dimensions_fit(X)
    IN SetAttr(SetAttr(a, "homology_dimensions_", dims),
               "_n_dimensions", Len(dims))

PEFit ==
    /\ cls = "PersistenceEntropy"
    /\ pc = "idle"
    /\ op' = "fit"
    /\ unitsRun' = 0
    /\ IF PEParamsValid(params)
       THEN /\ attrs' = PEFitAttrs(attrs, batch)
            /\ ret' = Self
            /\ err' = "none"
            /\ everFitted' = TRUE
       ELSE /\ ret' = NoValue
            /\ err' = "TypeError"
            /\ UNCHANGED <<attrs, everFitted>>
    /\ prevRet' = NoValue
    /\ UNCHANGED fitVars
    /\ UNCHANGED <<cls, params, batch, pc, tasks, results>>

\* the work units handed to Parallel: for dim in homology_dimensions_, for
\* s in gen_even_slices(len(X), effective_n_jobs(n_jobs))
PETasks(dims, n, n_jobs) ==
    LET slices == gen_even_slices(n, effective_n_jobs(n_jobs))
    IN Flatten([j \in DOMAIN dims |->
                   [s \in DOMAIN slices |->
                       [dim |-> dims[j], lo |-> slices[s].lo,
                        hi |-> slices[s].hi]]])

\* one work unit: _persistence_entropy(_subdiagrams(X[s], [dim]), ...)
PERunTask(t, X, p) ==
    _persistence_entropy(
        [i \in 1..(t.hi - t.lo) |-> subdiagram(X[t.lo + i], t.dim)],
        p.normalize, p.nan_fill_value)

\* the assembly without the transpose: np.concatenate(Xt).reshape(len(X), -1)
PEAssembleNoTranspose(res, n_dimensions, n) ==
    Reshape(Flatten(res), n, n_dimensions)

\* np.concatenate(Xt).reshape(self._n_dimensions, len(X)).T
PEAssemble(res, n_dimensions, n) ==
    Transpose(Reshape(Flatten(res), n_dimensions, n), n_dimensions, n)

PETransformBegin ==
    /\ cls = "PersistenceEntropy"
    /\ pc = "idle"
    /\ op' = "transform"
    /\ unitsRun' = 0
    /\ ret' = NoValue
    /\ results' = <<>>
    /\ IF check_is_fitted(attrs)
       THEN /\ err' = "none"
            /\ pc' = "running"
            /\ tasks' = PETasks(attrs["homology_dimensions_"], Len(batch),
                                params.n_jobs)
       ELSE /\ err' = "NotFittedError"
            /\ pc' = "idle"
            /\ tasks' = <<>>
    /\ prevRet' = (IF op = "transform" THEN ret ELSE NoValue)
    /\ UNCHANGED fitVars
    /\ UNCHANGED <<cls, params, attrs, batch, everFitted>>

\* a worker finishes one pending unit; Parallel keeps each result at the
\* index of its task
PEWorker(t) ==
    /\ pc = "running"
    /\ t \in DOMAIN tasks
    /\ t \notin DOMAIN results
    /\ results' = (t :> PERunTask(tasks[t], batch, params)) @@ results
    /\ unitsRun' = unitsRun + 1
    /\ UNCHANGED fitVars
    /\ UNCHANGED <<cls, params, attrs, batch, op, ret, err, pc, tasks,
                   everFitted, prevRet>>

PETransformEnd ==
    /\ pc = "running"
    /\ DOMAIN results = DOMAIN tasks
    /\ ret' = Array(PEAssemble([t \in DOMAIN tasks |-> results[t]],
                               attrs["_n_dimensions"], Len(batch)))
    /\ pc' = "idle"
    /\ UNCHANGED fitVars
    /\ UNCHANGED <<cls, params, attrs, batch, op, err, tasks, results,
                   unitsRun, everFitted, prevRet>>

(***************************************************************************)
(* Amplitude                                                               *)
(***************************************************************************)
\* a dict as a function from its keys; None is kept apart from the empty dict
NoDict == [isNone |-> TRUE, d |-> NoAttrs]
Dict(f) == [isNone |-> FALSE, d |-> f]

AmplitudeConfigs ==
    {[metric |-> m, metric_params |-> mp, order |-> o, n_jobs |-> j] :
        m \in {"bottleneck", "wasserstein", "persistence_image", "euclidean"},
        mp \in {NoDict, Dict([p |-> 2]), Dict([p |-> 0])},
        o \in {NoneV, Num(1), Num(2), Num(3), PosInf, Num(0)},
        j \in {1}}

\* _AVAILABLE_AMPLITUDE_METRICS: the arguments each metric accepts
AVAILABLE_AMPLITUDE_METRICS ==
    [bottleneck |-> {}, wasserstein |-> {"p"},
     persistence_image |-> {"p", "sigma", "n_bins", "weight_function"}]

\* validate_params(self.get_params(), self._hyperparameters): "none" or the
\* exception raised
AmplitudeValidateHyper(p) ==
    IF p.metric \notin DOMAIN AVAILABLE_AMPLITUDE_METRICS THEN "ValueError"
    ELSE IF p.order.kind \notin {"None", "num", "inf"} THEN "TypeError"
    ELSE IF p.order.kind = "num" /\ p.order.n <= 0 THEN "ValueError"
    ELSE "none"

\* validate_params(effective_metric_params_, _AVAILABLE_AMPLITUDE_METRICS[metric])
AmplitudeValidateMetricParams(emp, metric) ==
    IF \E k \in DOMAIN emp : k \notin AVAILABLE_AMPLITUDE_METRICS[metric]
    THEN "KeyError"
    ELSE IF "p" \in DOMAIN emp /\ emp["p"] < 1 THEN "ValueError"
    ELSE "none"

\* _bin(X, metric, **params): per dimension, the range the fitting batch spans
bin_samplings(X, dims) ==
    [j \in DOMAIN dims |->
        LET pts == UNION {Range(subdiagram(X[i], dims[j])) : i \in DOMAIN X}
        IN <<CHOOSE b \in {t[1] : t \in pts} : \A t \in pts : b <= t[1],
             CHOOSE d \in {t[2] : t \in pts} : \A t \in pts : d >= t[2]>>]

bin_step_sizes(X, dims) ==
    [j \in DOMAIN dims |-> bin_samplings(X, dims)[j][2] - bin_samplings(X, dims)[j][1]]

\* lines 329-332: effective_metric_params_ is {} or a copy of metric_params
AmplitudeEffectiveParams(p) == IF p.metric_params.isNone THEN NoAttrs
                               ELSE p.metric_params.d

\* lines 338-352: the attributes assigned once both validations passed
AmplitudeFitAttrs(a, p, X) ==
    LET dims == homology_dimensions_fit(X)
        emp0 == a["effective_metric_params_"]
        emp1 == SetAttr(SetAttr(emp0, "samplings", bin_samplings(X, dims)),
                        "step_sizes", bin_step_sizes(X, dims))
        emp2 == IF p.metric = "persistence_image"
                THEN SetAttr(emp1, "weight_function",
                             IF "weight_function" \in DOMAIN emp1
                             THEN emp1["weight_function"] ELSE "ones_like")
                ELSE emp1
    IN SetAttr(SetAttr(a, "homology_dimensions_", dims),
               "effective_metric_params_", emp2)

AmplitudeFit ==
    /\ cls = "Amplitude"
    /\ pc = "idle"
    /\ op' = "fit"
    /\ unitsRun' = 0
    /\ IF AmplitudeValidateHyper(params) # "none"
       THEN /\ err' = AmplitudeValidateHyper(params)
            /\ ret' = NoValue
            /\ UNCHANGED <<attrs, everFitted>>
       ELSE LET a1 == SetAttr(attrs, "effective_metric_params_",
                              AmplitudeEffectiveParams(params))
                e == AmplitudeValidateMetricParams(
                         a1["effective_metric_params_"], params.metric)
            IN IF e # "none"
               THEN /\ err' = e
                    /\ ret' = NoValue
                    /\ attrs' = a1
                    /\ UNCHANGED everFitted
               ELSE /\ err' = "none"
                    /\ ret' = Self
                    /\ attrs' = AmplitudeFitAttrs(a1, params, batch)
                    /\ everFitted' = TRUE
    /\ prevRet' = NoValue
    /\ UNCHANGED fitVars
    /\ UNCHANGED <<cls, params, batch, pc, tasks, results>>

RECURSIVE Pow(_, _)
Pow(b, e) == IF e = 0 THEN 1 ELSE b * Pow(b, e - 1)

RECURSIVE MaxSeq(_)
MaxSeq(s) == IF s = <<>> THEN 0
             ELSE IF Head(s) >= MaxSeq(Tail(s)) THEN Head(s) ELSE MaxSeq(Tail(s))

Abs(x) == IF x < 0 THEN -x ELSE x

\* the amplitude kernel of one subdiagram, in the kernel's own unit: its
\* distance from the empty diagram, 0 when every point is diagonal
KernelAmplitude(metric, emp, sub) ==
    LET l == Lifespan(sub)
        p == IF "p" \in DOMAIN emp THEN emp["p"] ELSE 2
    IN IF metric = "bottleneck" THEN MaxSeq(l)
       ELSE IF metric = "wasserstein"
            THEN SumSeq([i \in DOMAIN l |-> Pow(l[i], p)])
       ELSE SumSeq(l)

\* _parallel_amplitude: one amplitude per sample (row) and fitted dimension
\* (column, ascending)
parallel_amplitude(X, metric, emp, dims, n_jobs) ==
    [i \in DOMAIN X |->
        [j \in DOMAIN dims |->
            Num(KernelAmplitude(metric, emp, subdiagram(X[i], dims[j])))]]

\* r ** (1 / p), exact: an integer when r is a perfect p-th power
Root(p, r) ==
    IF \E k \in 0..r : Pow(k, p) = r
    THEN Num(CHOOSE k \in 0..r : Pow(k, p) = r)
    ELSE [kind |-> "root", n |-> r, ls |-> <<p>>]

\* np.linalg.norm(x, ord=ord) of one row, by numpy's cases on ord
linalg_norm(row, ord) ==
    LET x == [j \in DOMAIN row |-> row[j].n]
        absx == [j \in DOMAIN x |-> Abs(x[j])]
    IN IF ord = PosInf THEN Num(MaxSeq(absx))
       ELSE IF ord = Num(1) THEN Num(SumSeq(absx))
       ELSE IF ord = Num(2)
            THEN Root(2, SumSeq([j \in DOMAIN x |-> x[j] * x[j]]))
       ELSE Root(ord.n, SumSeq([j \in DOMAIN x |-> Pow(absx[j], ord.n)]))

\* transform taking the norm without ord=self.order (the Euclidean norm)
AmplitudeTransformResultNoOrd(a, p, X) ==
    LET Xt == parallel_amplitude(X, p.metric, a["effective_metric_params_"],
                                 a["homology_dimensions_"], p.n_jobs)
    IN IF p.order # NoneV
       THEN Reshape([i \in DOMAIN Xt |-> linalg_norm(Xt[i], Num(2))],
                    Len(Xt), 1)
       ELSE Xt

\* lines 385-390: the array transform returns
AmplitudeTransformResult(a, p, X) ==
    LET Xt == parallel_amplitude(X, p.metric, a["effective_metric_params_"],
                                 a["homology_dimensions_"], p.n_jobs)
    IN IF p.order # NoneV
       THEN Reshape([i \in DOMAIN Xt |-> linalg_norm(Xt[i], p.order)],
                    Len(Xt), 1)
       ELSE Xt

\* transform popping "samplings" and "step_sizes" from
\* effective_metric_params_ itself instead of from a copy
AmplitudeTransformPopsInPlace ==
    /\ cls = "Amplitude"
    /\ pc = "idle"
    /\ op' = "transform"
    /\ IF ~check_is_fitted(attrs)
       THEN /\ err' = "NotFittedError"
            /\ ret' = NoValue
            /\ unitsRun' = 0
            /\ attrs' = attrs
       ELSE IF "homology_dimensions_" \notin DOMAIN attrs
       THEN /\ err' = "AttributeError"
            /\ ret' = NoValue
            /\ unitsRun' = 0
            /\ attrs' = attrs
       ELSE /\ err' = "none"
            /\ ret' = Array(AmplitudeTransformResult(attrs, params, batch))
            /\ unitsRun' = Len(attrs["homology_dimensions_"])
                           * Len(gen_even_slices(Len(batch),
                                     effective_n_jobs(params.n_jobs)))
            /\ attrs' = SetAttr(attrs, "effective_metric_params_",
                          [k \in DOMAIN attrs["effective_metric_params_"]
                                  \ {"samplings", "step_sizes"} |->
                              attrs["effective_metric_params_"][k]])
    /\ prevRet' = (IF op = "transform" THEN ret ELSE NoValue)
    /\ UNCHANGED fitVars
    /\ UNCHANGED <<cls, params, batch, pc, tasks, results, everFitted>>

AmplitudeTransform ==
    /\ cls = "Amplitude"
    /\ pc = "idle"
    /\ op' = "transform"
    /\ IF ~check_is_fitted(attrs)
       THEN /\ err' = "NotFittedError"
            /\ ret' = NoValue
            /\ unitsRun' = 0
       ELSE IF "homology_dimensions_" \notin DOMAIN attrs
       THEN /\ err' = "AttributeError"
            /\ ret' = NoValue
            /\ unitsRun' = 0
       ELSE /\ err' = "none"
            /\ ret' = Array(AmplitudeTransformResult(attrs, params, batch))
            /\ unitsRun' = Len(attrs["homology_dimensions_"])
                           * Len(gen_even_slices(Len(batch),
                                     effective_n_jobs(params.n_jobs)))
    /\ prevRet' = (IF op = "transform" THEN ret ELSE NoValue)
    /\ UNCHANGED fitVars
    /\ UNCHANGED <<cls, params, attrs, batch, pc, tasks, results, everFitted>>

(***************************************************************************)
(* ATOL                                                                    *)
(***************************************************************************)
\* one entry of quantiser_params: a dict of quantiser keyword arguments, or
\* something that is no dict
QEntry(k) == [isDict |-> TRUE, n_clusters |-> k]
NotADict == [isDict |-> FALSE, n_clusters |-> 0]
QDict(k) == [kind |-> "dict", items |-> <<QEntry(k)>>]
QList(l) == [kind |-> "list", items |-> l]
QOther == [kind |-> "int", items |-> <<>>]

\* the number of homology dimensions of the batches
NDims == Cardinality(Range(DimPattern))

QuantiserParams ==
    {QDict(k) : k \in 1..MaxK}
    \cup {QList([j \in 1..NDims |-> QEntry(IF j = 1 THEN MaxK ELSE 1)]),
          QList([j \in 1..NDims |-> IF j = 1 THEN QEntry(1) ELSE NotADict]),
          QList([j \in 1..(NDims - 1) |-> QEntry(1)]),
          QList([j \in 1..(NDims + 1) |-> QEntry(1)]),
          QOther}

ATOLConfigs ==
    {[quantiser |-> q, quantiser_params |-> qp, contrast_function |-> c,
      weight_function |-> w, n_jobs |-> 1] :
        q \in {"KMeans", "MiniBatchKMeans", "DBSCAN"},
        qp \in QuantiserParams,
        c \in {"gaussian", "indicator", "cosine"},
        w \in {"one", "uniform", "None"}}

\* the names the class documents, and the defaults of __init__
ATOLNamesSupported(p) ==
    /\ p.quantiser \in {"KMeans", "MiniBatchKMeans"}
    /\ p.contrast_function \in {"gaussian", "laplacian", "indicator"}
    /\ p.weight_function \in {"one", "uniform", "None"}

\* quantiser_params is a dict, or a list of one dict per homology dimension
QuantiserParamsWellFormed(qp) ==
    \/ qp.kind = "dict"
    \/ /\ qp.kind = "list"
       /\ Len(qp.items) = NDims
       /\ \A j \in DOMAIN qp.items : qp.items[j].isDict

\* the names fit has bound when line 481 reads _hyperparameters: the
\* assignment at line 500 makes that name a local of fit
FitLocalsBoundAtLine481 == {"self", "X", "y"}

\* ATOL.fit: "none" or the exception it raises
ATOLFitError(p, X) ==
    IF "_hyperparameters" \notin FitLocalsBoundAtLine481
    THEN "UnboundLocalError"
    ELSE "none"

ATOLFit ==
    /\ cls = "ATOL"
    /\ pc = "idle"
    /\ op' = "fit"
    /\ unitsRun' = 0
    /\ err' = ATOLFitError(params, batch)
    /\ ret' = NoValue
    /\ prevRet' = NoValue
    /\ UNCHANGED fitVars
    /\ UNCHANGED <<cls, params, attrs, batch, pc, tasks, results, everFitted>>

\* lines 493-516: the cluster count of each fitted dimension
n_clusters(qp) ==
    [j \in 1..NDims |->
        IF qp.kind = "list" THEN qp.items[j].n_clusters
        ELSE qp.items[1].n_clusters]

\* lines 484-548: the attributes the body of fit assigns, for cluster counts
\* k; the centers of a dimension lie at <<0, 1>>, <<0, 2>>, ... and each
\* inertia is half the distance to the nearest other center (stored doubled)
ATOLFitAttrs(p, X) ==
    LET dims == homology_dimensions_fit(X)
        k == n_clusters(p.quantiser_params)
        centers == [j \in DOMAIN dims |-> [c \in 1..k[j] |-> <<0, c>>]]
    IN [homology_dimensions_ |-> dims,
        _weight_function |-> p.weight_function,
        _contrast_function |-> p.contrast_function,
        _cluster_centers |-> centers,
        _inertias |-> [j \in DOMAIN dims |-> [c \in 1..k[j] |-> 1]],
        centers_ |-> Flatten([j \in DOMAIN dims |->
                        [c \in 1..k[j] |->
                            <<centers[j][c][1], centers[j][c][2], dims[j]>>]])]

\* a contrast function: the proximity of point pt to a center, 1 inside the
\* ball of radius inertia and 0 outside (inertia2 is twice the inertia)
contrast(pt, center, inertia2) ==
    LET dx == pt[1] - center[1]
        dy == pt[2] - center[2]
    IN IF 4 * (dx * dx + dy * dy) <= inertia2 * inertia2 THEN 1 ELSE 0

\* a weight function: weight 1 for every point
weight(pt) == 1

\* _vectorize(Xd_sub, dimension), dimension given by its index j in
\* homology_dimensions_: one scalar per cluster center
_vectorize(a, sub, j) ==
    LET pts == SelectSeq(sub, LAMBDA t : t[2] # t[1])
        centers == a["_cluster_centers"][j]
    IN IF Len(pts) > 0
       THEN [c \in DOMAIN centers |->
                Num(SumSeq([q \in DOMAIN pts |->
                        weight(pts[q])
                        * contrast(pts[q], centers[c], a["_inertias"][j][c])]))]
       ELSE [c \in DOMAIN centers |-> Num(0)]

\* lines 589-594: the results of Parallel, for dim in homology_dimensions_
\* for x in Xt
ATOLTaskResults(a, X) ==
    LET dims == a["homology_dimensions_"]
    IN Flatten([j \in DOMAIN dims |->
                   [i \in DOMAIN X |->
                       _vectorize(a, subdiagram(X[i], dims[j]), j)]])

\* line 595: np.concatenate(Xt).reshape(X.shape[0], -1)
ATOLAssemble(res, n) ==
    Reshape(Flatten(res), n, Len(Flatten(res)) \div n)

ATOLTransform ==
    /\ cls = "ATOL"
    /\ pc = "idle"
    /\ op' = "transform"
    /\ IF ~check_is_fitted(attrs)
       THEN /\ err' = "NotFittedError"
            /\ ret' = NoValue
            /\ unitsRun' = 0
       ELSE /\ err' = "none"
            /\ ret' = Array(ATOLAssemble(ATOLTaskResults(attrs, batch),
                                         Len(batch)))
            /\ unitsRun' = Len(ATOLTaskResults(attrs, batch))
    /\ prevRet' = (IF op = "transform" THEN ret ELSE NoValue)
    /\ UNCHANGED fitVars
    /\ UNCHANGED <<cls, params, attrs, batch, pc, tasks, results, everFitted>>

(***************************************************************************)
(* The body of ATOL.fit, lines 484-550: the statements that follow the     *)
(* validation of line 481.                                                 *)
(***************************************************************************)
\* ATOL._hyperparameters (lines 438-445): the nested dict of each key
ATOLHyperparameters ==
    [quantiser |-> ("type" :> "str") @@ ("in" :> "_AVAILABLE_QUANTISERS"),
     quantiser_params |-> ("type" :> "dict"),
     contrast_function |-> ("type" :> "str")
                           @@ ("in" :> "_AVAILABLE_CONTRAST_FUNCTIONS"),
     weight_function |-> ("type" :> "str or None")
                         @@ ("in" :> "_AVAILABLE_WEIGHT_FUNCTIONS")]

\* dict.copy(): a new dict whose values are the same objects; a value is
\* kept as the key under which class_hyperparameters holds the object
dict_copy(d) == [k \in DOMAIN d |-> k]

\* the local variables of fit before line 484
NoLocals == <<>>

\* half the Euclidean distance whose square is d2, and an array entry that
\* np.empty left unwritten
HalfSqrt(d2) == [kind |-> "halfsqrt", n |-> d2, ls |-> <<>>]
Uninitialized == [kind |-> "uninitialized", n |-> 0, ls |-> <<>>]

\* lines 493-497: effective_quantiser_params_
effective_quantiser_params(qp, n_dimensions) ==
    IF qp.kind = "list" THEN qp.items
    ELSE [j \in 1..n_dimensions |->
             IF qp.kind = "dict" THEN qp.items[1] ELSE NotADict]

\* lines 507-509, validate_params on the quantiser parameters: "none" or
\* the exception raised
ValidateQuantiserParams(eqp, n_dimensions) ==
    IF \E j \in DOMAIN eqp : ~eqp[j].isDict THEN "TypeError"
    ELSE IF Len(eqp) # n_dimensions THEN "ValueError"
    ELSE "none"

\* lines 524-526: the non-diagonal points of dimension dim, pooled over the
\* batch, as (birth, death) pairs
PooledPoints(X, dim) ==
    Flatten([i \in DOMAIN X |->
        LET pts == SelectSeq(subdiagram(X[i], dim), LAMBDA t : t[2] # t[1])
        IN [q \in DOMAIN pts |-> <<pts[q][1], pts[q][2]>>]])

\* quantiser.fit(X=Xd_sub, ...): the cluster_centers_ a quantiser with k
\* clusters may return, none when there are fewer points than clusters
QuantiserOutcomes(k, pooled) ==
    IF Len(pooled) < k THEN {} ELSE [1..k -> Range(pooled)]

\* pairwise_distances: the squared Euclidean distance of two points
Dist2(a, b) == (a[1] - b[1]) * (a[1] - b[1]) + (a[2] - b[2]) * (a[2] - b[2])

MaxOf(S) == CHOOSE m \in S : \A x \in S : x <= m
MinOf(S) == CHOOSE m \in S : \A x \in S : m <= x

\* lines 533-540: the inertias of the centers of one dimension
fit_inertias(k, pooled, centers) ==
    IF k = 1
    THEN <<HalfSqrt(MaxOf({Dist2(pooled[a], pooled[b]) :
                               a \in DOMAIN pooled, b \in DOMAIN pooled}))>>
    ELSE [c \in DOMAIN centers |->
             LET column == {Dist2(centers[r], centers[c]) :
                                r \in DOMAIN centers} \ {0}
             IN IF column = {} THEN PosInf ELSE HalfSqrt(MinOf(column))]

\* a slice assignment that ignores start: arr[:end - start] = rows
SliceAssignFromZero(arr, start, end, rows) ==
    [ok |-> TRUE,
     arr |-> [r \in DOMAIN arr |->
                 IF r <= Len(rows) THEN rows[r] ELSE arr[r]]]

\* arr[start:end] = rows, numpy's slice assignment: the slice stops at the
\* end of arr, and rows must have its length unless it is a single row
SliceAssign(arr, start, end, rows) ==
    LET stop == Min(end, Len(arr))
        count == IF stop > start THEN stop - start ELSE 0
    IN IF count # Len(rows) /\ Len(rows) # 1
       THEN [ok |-> FALSE, arr |-> arr]
       ELSE [ok |-> TRUE,
             arr |-> [r \in DOMAIN arr |->
                         IF r > start /\ r <= stop
                         THEN IF Len(rows) = 1 THEN rows[1]
                              ELSE rows[r - start]
                         ELSE arr[r]]]

\* the keys of implemented_quantiser_recipes, implemented_weight_recipes and
\* implemented_contrast_recipes
QuantiserRecipes == {"KMeans", "MiniBatchKMeans"}
WeightRecipes == {"one", "uniform", "None"}
ContrastRecipes == {"gaussian", "laplacian", "indicator"}

\* lines 484-521: from the first assignment to the start of the loop
ATOLFitBegin ==
    /\ cls = "ATOL"
    /\ pc = "idle"
    /\ fitpc = "idle"
    /\ op' = "fit"
    /\ unitsRun' = 0
    /\ prevRet' = NoValue
    /\ ret' = NoValue
    /\ LET dims == homology_dimensions_fit(batch)
           n_dimensions == Len(dims)
           a1 == SetAttr(attrs, "homology_dimensions_", dims)
           a2 == SetAttr(a1, "_weight_function", params.weight_function)
           a3 == SetAttr(a2, "_contrast_function", params.contrast_function)
           eqp == effective_quantiser_params(params.quantiser_params,
                                             n_dimensions)
           _hyperparameters == dict_copy(class_hyperparameters)
           k == n_clusters(params.quantiser_params)
       IN IF params.quantiser \notin QuantiserRecipes
             \/ params.weight_function \notin WeightRecipes
          THEN /\ err' = "KeyError"
               /\ attrs' = a1
               /\ UNCHANGED fitVars
          ELSE IF params.contrast_function \notin ContrastRecipes
          THEN /\ err' = "KeyError"
               /\ attrs' = a2
               /\ UNCHANGED fitVars
          ELSE /\ class_hyperparameters' =
                      [class_hyperparameters EXCEPT
                          ![_hyperparameters["quantiser_params"]] =
                              SetAttr(@, "of", params.quantiser)]
               /\ IF ValidateQuantiserParams(eqp, n_dimensions) # "none"
                  THEN /\ err' = ValidateQuantiserParams(eqp, n_dimensions)
                       /\ attrs' = a3
                       /\ UNCHANGED <<fitpc, locals>>
                  ELSE /\ err' = "none"
                       /\ attrs' =
                              SetAttr(SetAttr(SetAttr(a3,
                                  "_cluster_centers", <<>>),
                                  "_inertias", <<>>),
                                  "centers_",
                                  [r \in 1..SumSeq(k) |-> Uninitialized])
                       /\ fitpc' = "loop"
                       /\ locals' = [i |-> 0,
                                     n_dimensions |-> n_dimensions,
                                     effective_quantiser_params_ |-> eqp,
                                     n_clusters |-> k,
                                     n_points_start |-> 0,
                                     n_points_end |-> k[1]]
    /\ UNCHANGED <<cls, params, batch, pc, tasks, results, everFitted>>

\* lines 523-548: one iteration of the loop over homology_dimensions_
ATOLFitLoopStep ==
    /\ cls = "ATOL"
    /\ fitpc = "loop"
    /\ locals.i < locals.n_dimensions
    /\ LET i == locals.i
           dim == attrs["homology_dimensions_"][i + 1]
           Xd_sub == PooledPoints(batch, dim)
           k == locals.effective_quantiser_params_[i + 1].n_clusters
       IN IF QuantiserOutcomes(k, Xd_sub) = {}
          THEN /\ err' = "ValueError"
               /\ fitpc' = "idle"
               /\ locals' = NoLocals
               /\ attrs' = attrs
          ELSE \E cluster_centers \in QuantiserOutcomes(k, Xd_sub) :
               LET tagged == [c \in DOMAIN cluster_centers |->
                                 <<cluster_centers[c][1],
                                   cluster_centers[c][2], dim>>]
                   written == SliceAssign(attrs["centers_"],
                                          locals.n_points_start,
                                          locals.n_points_end, tagged)
               IN IF ~written.ok
                  THEN /\ err' = "ValueError"
                       /\ fitpc' = "idle"
                       /\ locals' = NoLocals
                       /\ attrs' = SetAttr(attrs, "_cluster_centers",
                              Append(attrs["_cluster_centers"],
                                     cluster_centers))
                  ELSE /\ err' = "none"
                       /\ fitpc' = "loop"
                       /\ attrs' =
                              SetAttr(SetAttr(SetAttr(attrs,
                                  "_cluster_centers",
                                  Append(attrs["_cluster_centers"],
                                         cluster_centers)),
                                  "_inertias",
                                  Append(attrs["_inertias"],
                                         fit_inertias(k, Xd_sub,
                                                      cluster_centers))),
                                  "centers_", written.arr)
                       /\ locals' =
                              [locals EXCEPT
                                  !.i = i + 1,
                                  !.n_points_start =
                                      @ + locals.n_clusters[i + 1],
                                  !.n_points_end =
                                      IF i < locals.n_dimensions - 1
                                      THEN @ + locals.n_clusters[i + 2]
                                      ELSE @]
    /\ UNCHANGED <<cls, params, batch, op, ret, pc, tasks, results,
                   unitsRun, everFitted, prevRet, class_hyperparameters>>

\* line 550: return self
ATOLFitReturn ==
    /\ cls = "ATOL"
    /\ fitpc = "loop"
    /\ locals.i = locals.n_dimensions
    /\ fitpc' = "idle"
    /\ locals' = NoLocals
    /\ ret' = Self
    /\ everFitted' = TRUE
    /\ UNCHANGED <<cls, params, attrs, batch, op, err, pc, tasks, results,
                   unitsRun, prevRet, class_hyperparameters>>

(***************************************************************************)
(* Specification                                                           *)
(***************************************************************************)
\* the hyperparameters __init__ may store, per class
ConfigsOf(c) == IF c = "PersistenceEntropy" THEN PEConfigs
                ELSE IF c = "Amplitude" THEN AmplitudeConfigs
                ELSE ATOLConfigs

Init ==
    /\ cls \in {"PersistenceEntropy", "Amplitude", "ATOL"}
    /\ params \in ConfigsOf(cls)
    /\ attrs = NoAttrs
    /\ batch \in Batches
    /\ op = "init"
    /\ ret = NoValue
    /\ err = "none"
    /\ pc = "idle"
    /\ tasks = <<>>
    /\ results = <<>>
    /\ unitsRun = 0
    /\ everFitted = FALSE
    /\ prevRet = NoValue
    /\ class_hyperparameters = ATOLHyperparameters
    /\ fitpc = "idle"
    /\ locals = NoLocals

Next ==
    \/ PEFit
    \/ PETransformBegin
    \/ \E t \in DOMAIN tasks : PEWorker(t)
    \/ PETransformEnd
    \/ AmplitudeFit
    \/ AmplitudeTransform
    \/ ATOLFit
    \/ ATOLTransform

Spec == Init /\ [][Next]_vars

\* The same program, an ATOL instance starting with the attributes the body
\* of ATOL.fit assigns for its hyperparameters (a fitted instance as the
\* input of transform).
InitFitted ==
    /\ cls \in {"PersistenceEntropy", "Amplitude", "ATOL"}
    /\ params \in ConfigsOf(cls)
    /\ cls = "ATOL" =>
           ATOLNamesSupported(params)
           /\ QuantiserParamsWellFormed(params.quantiser_params)
    /\ batch \in Batches
    /\ attrs = IF cls = "ATOL" THEN ATOLFitAttrs(params, batch) ELSE NoAttrs
    /\ op = "init"
    /\ ret = NoValue
    /\ err = "none"
    /\ pc = "idle"
    /\ tasks = <<>>
    /\ results = <<>>
    /\ unitsRun = 0
    /\ everFitted = (cls = "ATOL")
    /\ prevRet = NoValue
    /\ class_hyperparameters = ATOLHyperparameters
    /\ fitpc = "idle"
    /\ locals = NoLocals

SpecFitted == InitFitted /\ [][Next]_vars


\* The body of ATOL.fit run from line 484 on every ATOL configuration, for
\* the statements that line 481 keeps fit from reaching.
InitFitBody ==
    /\ Init
    /\ cls = "ATOL"
    /\ params.contrast_function = "gaussian"
    /\ params.weight_function = "one"

NextFitBody ==
    \/ ATOLFitBegin
    \/ ATOLFitLoopStep
    \/ ATOLFitReturn

SpecFitBody == InitFitBody /\ [][NextFitBody]_vars

(***************************************************************************)
(* Properties                                                              *)
(***************************************************************************)
\* the last call was transform and it returned an array
Returned(c) == cls = c /\ op = "transform" /\ pc = "idle" /\ ret.kind = "array"

\* the homology dimensions of the first diagram of the batch, and the j-th
\* smallest of them
DimsSeen == {batch[1][p][3] : p \in DOMAIN batch[1]}
JthSmallest(j) ==
    CHOOSE d \in DimsSeen : Cardinality({e \in DimsSeen : e < d}) = j - 1

NonDiagonal(sub) == {p \in DOMAIN sub : sub[p][2] # sub[p][1]}

\* the entropy of one sample's subdiagram of dimension dim
SampleEntropy(x, dim) ==
    _persistence_entropy(<<subdiagram(x, dim)>>, params.normalize,
                         params.nan_fill_value)[1]

\* C1: whatever the number of slices and the order in which the (dimension,
\* slice) work units complete, entry [i, j] of the array
\* PersistenceEntropy.transform returns is the entropy of sample i's
\* subdiagram of the j-th smallest fitted homology dimension, so the output
\* is the same for every n_jobs.
C1_EntropyOutputByDimensionAndSample ==
    Returned("PersistenceEntropy") =>
        /\ DOMAIN ret.data = DOMAIN batch
        /\ \A i \in DOMAIN batch :
               /\ DOMAIN ret.data[i] = 1..Cardinality(DimsSeen)
               /\ \A j \in 1..Cardinality(DimsSeen) :
                      ret.data[i][j] = SampleEntropy(batch[i], JthSmallest(j))

C1_Witness ==
    /\ Returned("PersistenceEntropy")
    /\ Len(batch) > 1
    /\ Len(tasks) > Cardinality(DimsSeen)
    /\ ret.data[1] # ret.data[2]
    /\ ret.data[1][1] # ret.data[1][2]

\* the row ATOL.transform should return for sample x: the per-center vectors
\* of the fitted dimensions, in ascending order of dimension
ATOLExpectedRow(x) ==
    Flatten([j \in 1..Cardinality(DimsSeen) |->
                _vectorize(attrs, subdiagram(x, JthSmallest(j)), j)])

C3_ATOLFitCompletes ==
    (/\ cls = "ATOL"
     /\ op = "fit"
     /\ ATOLNamesSupported(params)
     /\ QuantiserParamsWellFormed(params.quantiser_params)) =>
        /\ err = "none"
        /\ ret = Self
        /\ {"homology_dimensions_", "_cluster_centers", "_inertias"}
               \subseteq DOMAIN attrs

\* the number of cluster centers fitted for the j-th dimension
FittedK(j) == Len(attrs["_cluster_centers"][j])

PNorm(row, p) ==
    IF p = PosInf
    THEN Num(MaxSeq([j \in DOMAIN row |-> Abs(row[j].n)]))
    ELSE Root(p.n, SumSeq([j \in DOMAIN row |-> Pow(Abs(row[j].n), p.n)]))

\* what transform returns for the same fitted attributes with order=None
AmplitudeVectors ==
    AmplitudeTransformResult(attrs, [params EXCEPT !.order = NoneV], batch)

\* C5: with order=p, Amplitude.transform returns an array of shape
\* (n_samples, 1) whose row i is the p-norm of row i of the array of shape
\* (n_samples, n_homology_dimensions) it returns with order=None.
C5_AmplitudeOrderIsRowNorm ==
    Returned("Amplitude") =>
        /\ DOMAIN AmplitudeVectors = DOMAIN batch
        /\ \A i \in DOMAIN batch :
               /\ DOMAIN AmplitudeVectors[i] = 1..Cardinality(DimsSeen)
               /\ IF params.order = NoneV
                  THEN ret.data[i] = AmplitudeVectors[i]
                  ELSE ret.data[i] = <<PNorm(AmplitudeVectors[i], params.order)>>
        /\ DOMAIN ret.data = DOMAIN batch

C5_Witness ==
    /\ Returned("Amplitude")
    /\ params.order = Num(3)
    /\ Len(batch) > 1
    /\ ret.data[1][1].kind = "root"
    /\ ret.data[2][1].kind = "num"
    /\ AmplitudeVectors[1][1] # AmplitudeVectors[1][2]

\* C6: the entropy of a subdiagram with exactly one non-diagonal point is 0.
C6_SinglePointEntropyIsZero ==
    Returned("PersistenceEntropy") =>
        \A i \in DOMAIN batch : \A j \in 1..Cardinality(DimsSeen) :
            Cardinality(NonDiagonal(subdiagram(batch[i], JthSmallest(j)))) = 1
                => ret.data[i][j] = Num(0)

\* C7: the entropy of a subdiagram whose points are all diagonal is
\* nan_fill_value when that is a number and NaN when it is None, and
\* transform raises nothing.
C7_DiagonalSubdiagramGivesNanFill ==
    /\ (cls = "PersistenceEntropy" /\ op = "transform" /\ check_is_fitted(attrs))
           => err = "none"
    /\ Returned("PersistenceEntropy") =>
           \A i \in DOMAIN batch : \A j \in 1..Cardinality(DimsSeen) :
               NonDiagonal(subdiagram(batch[i], JthSmallest(j))) = {}
                   => ret.data[i][j] = IF params.nan_fill_value = NoneV THEN NaN
                                       ELSE params.nan_fill_value

C7_Witness ==
    /\ Returned("PersistenceEntropy")
    /\ \E i \in DOMAIN batch : \E j \in 1..Cardinality(DimsSeen) :
           /\ NonDiagonal(subdiagram(batch[i], JthSmallest(j))) = {}
           /\ Len(subdiagram(batch[i], JthSmallest(j))) > 1
           /\ ret.data[i][j] = NaN
    /\ \E i \in DOMAIN batch : \E j \in 1..Cardinality(DimsSeen) :
           ret.data[i][j].kind = "H"

\* C8: transform on an instance on which fit never returned raises
\* NotFittedError before any work unit runs and returns no array.
C8_UnfittedTransformRaisesNotFitted ==
    (op = "transform" /\ ~everFitted) =>
        /\ err = "NotFittedError"
        /\ ret = NoValue
        /\ unitsRun = 0

ConfigurationErrors == {"TypeError", "ValueError", "KeyError"}

\* C9: ATOL.fit rejects malformed quantiser_params with a configuration
\* error, before any quantiser is fitted and before any center or inertia
\* is stored.
C9_MalformedQuantiserParamsRejected ==
    (/\ cls = "ATOL"
     /\ op = "fit"
     /\ ~QuantiserParamsWellFormed(params.quantiser_params)) =>
        /\ err \in ConfigurationErrors
        /\ unitsRun = 0
        /\ DOMAIN attrs = {}

\* C10: a transform call changes no attribute and no hyperparameter of a
\* fitted instance, and a transform call that follows a transform call on
\* the same input returns the same array.
C10_TransformKeepsFitState ==
    [][/\ (op' = "transform" /\ check_is_fitted(attrs))
           => (attrs' = attrs /\ params' = params)
       /\ (op' = "transform" /\ pc' = "idle" /\ ret'.kind = "array"
           /\ prevRet'.kind = "array") => ret' = prevRet']_vars

C10_Witness ==
    /\ cls = "Amplitude"
    /\ op = "transform"
    /\ ret.kind = "array"
    /\ prevRet = ret
    /\ Len(batch) > 1
    /\ "samplings" \in DOMAIN attrs["effective_metric_params_"]

\* C12: when Amplitude.fit raises a configuration error it has assigned no
\* attribute: homology_dimensions_ and effective_metric_params_ are absent
\* or unchanged, exactly as before the call.
C12_AmplitudeFitErrorKeepsState ==
    [][(cls = "Amplitude" /\ op' = "fit" /\ err' \in ConfigurationErrors)
           => attrs' = attrs]_vars

InertiaRule(pooled, centers) ==
    IF Len(centers) = 1
    THEN <<HalfSqrt(MaxOf({Dist2(pooled[a], pooled[b]) :
                               a \in DOMAIN pooled, b \in DOMAIN pooled}))>>
    ELSE [c \in DOMAIN centers |->
             IF \E r \in DOMAIN centers \ {c} : centers[r] = centers[c]
             THEN PosInf
             ELSE HalfSqrt(MinOf({Dist2(centers[r], centers[c]) :
                                      r \in DOMAIN centers \ {c}}))]

RowOffset(j) == SumSeq([h \in 1..(j - 1) |-> FittedK(h)])

=============================================================================
